---- MODULE Spec2Model ----
(***************************************************************************)
(* Model of two files of Clementine:                                       *)
(*   src/src/core/utilities.cpp              Utilities::Copy,              *)
(*                                           Utilities::RemoveRecursive,   *)
(*                                           Utilities::FileSystemCapacity,*)
(*                                           Utilities::FileSystemFreeSpace*)
(*   src/ext/libclementine-common/core/closure.cpp   _detail::ObjectHelper *)
(*                                                                         *)
(* Each of the four pieces has its own specification (SpecCopy,            *)
(* SpecRemove, SpecStat, SpecClosure); the variables of the other pieces   *)
(* stay at their idle values.                                              *)
(***************************************************************************)
EXTENDS Integers, Sequences, FiniteSets, TLC

VARIABLES
  \* ---- Utilities::Copy -------------------------------------------------
  pc,             \* position in Copy: the statement executed next
  srcData,        \* contents of the source device (the byte sequence B)
  srcOpen,        \* source->isOpen()
  srcPos,         \* read position of the source device
  dstData,        \* contents of the destination device
  dstBefore,      \* contents of the destination before Copy was called
  dstOpen,        \* destination->isOpen()
  bytes,          \* const qint64 bytes
  data,           \* boost::scoped_array<char> data(new char[bytes])
  pos,            \* qint64 pos
  bytes_read,     \* qint64 bytes_read
  bytes_written,  \* qint64 bytes_written
  ret,            \* Copy's return value: "none" while running, "true", "false"
  log,            \* every call Copy issued on a device, in order
  \* ---- Utilities::RemoveRecursive --------------------------------------
  tree,           \* the directory tree T before the call (never changes)
  exists,         \* the entries of T that still exist
  stack,          \* the activation records of RemoveRecursive
  ops,            \* every removal attempted, in order
  denied,         \* some removal was refused by the operating system
  \* ---- Utilities::FileSystemCapacity / FileSystemFreeSpace -------------
  statOk,         \* statvfs(path, &fs_info) == 0
  fs_info,        \* struct statvfs as the operating system fills it
  capacityRet,    \* FileSystemCapacity's return value
  freeRet,        \* FileSystemFreeSpace's return value
  \* ---- _detail::ObjectHelper -------------------------------------------
  senderAlive,    \* sender -> it has not been destroyed
  helper,         \* helper -> its lifetime state, sender, pending deletion
  invocations,    \* helper -> how often closure_->Invoke() ran
  invokedDead     \* closure_->Invoke() ran for a deleted helper

copyVars == <<pc, srcData, srcOpen, srcPos, dstData, dstBefore, dstOpen,
              bytes, data, pos, bytes_read, bytes_written, ret, log>>
rmVars == <<tree, exists, stack, ops, denied>>
statVars == <<statOk, fs_info, capacityRet, freeRet>>
closureVars == <<senderAlive, helper, invocations, invokedDead>>
vars == <<copyVars, rmVars, statVars, closureVars>>

\* What an operation of one piece leaves alone: the other pieces.
notCopy == <<rmVars, statVars, closureVars>>
notRemove == <<copyVars, statVars, closureVars>>
notStat == <<copyVars, rmVars, closureVars>>
notClosure == <<copyVars, rmVars, statVars>>

-----------------------------------------------------------------------------
(* Bounds of the model.                                                    *)

\* Longest source the Copy model transfers.
MaxLen == 3

\* Values of a byte.
Byte == {0, 1}

RECURSIVE SeqsUpTo(_, _)
SeqsUpTo(S, n) ==
  IF n = 0 THEN {<<>>}
  ELSE LET shorter == SeqsUpTo(S, n - 1)
       IN  shorter \cup {Append(s, b) : s \in {t \in shorter : Len(t) = n - 1}, b \in S}

-----------------------------------------------------------------------------
(* Utilities::Copy                                                         *)

\* A call on a device as Copy issues it.  ret is the call's return value:
\* for open 1 (true) or 0 (false), for read and write the byte count or -1.
Call(dev, op, off, len, r) ==
  [dev |-> dev, op |-> op, off |-> off, len |-> len, ret |-> r]

\* What QIODevice::read / QIODevice::write may return for a request of
\* maxSize bytes: the error sentinel, nothing, or a count not above maxSize.
IoReturns(maxSize) == {-1} \cup (0 .. maxSize)

\* if (bytes_read == -1) return false;
ReadFailed(r) == r = -1

\* if (bytes_written == -1) return false;
\* Mutant: the test is missing.
WriteFailedNever(w) == FALSE
WriteFailed(w) == w = -1

\* } while (bytes_read > 0 && pos != bytes);
\* Mutant: the loop goes on after a read of nothing.
ReadLoopContinuesOnZero(r, p, n) == p # n
ReadLoopContinues(r, p, n) == r > 0 /\ p # n

\* } while (bytes_written > 0 && pos != bytes);
WriteLoopContinues(w, p, n) == w > 0 /\ p # n

\* data[off+1 .. off+len] overwritten by the bytes chunk.
StoreAt(buf, off, chunk) ==
  [i \in DOMAIN buf |->
     IF i > off /\ i <= off + Len(chunk) THEN chunk[i - off] ELSE buf[i]]

InitCopy ==
  /\ pc = "open_src"
  /\ srcData \in SeqsUpTo(Byte, MaxLen)
  /\ srcOpen = FALSE
  /\ srcPos = 0
  /\ dstBefore \in {<<>>, <<1>>}
  /\ dstData = dstBefore
  /\ dstOpen = FALSE
  /\ bytes = 0
  /\ data = <<>>
  /\ pos = 0
  /\ bytes_read = 0
  /\ bytes_written = 0
  /\ ret = "none"
  /\ log = <<>>

IdleCopy ==
  /\ pc = "idle"
  /\ srcData = <<>>
  /\ srcOpen = FALSE
  /\ srcPos = 0
  /\ dstBefore = <<>>
  /\ dstData = <<>>
  /\ dstOpen = FALSE
  /\ bytes = 0
  /\ data = <<>>
  /\ pos = 0
  /\ bytes_read = 0
  /\ bytes_written = 0
  /\ ret = "none"
  /\ log = <<>>

\* if (!source->open(QIODevice::ReadOnly)) return false;
\* Mutant: the early return is missing.
OpenSourceNoReturn ==
  /\ UNCHANGED notCopy
  /\ pc = "open_src"
  /\ \E ok \in BOOLEAN :
       /\ log' = Append(log, Call("src", "open", 0, 0, IF ok THEN 1 ELSE 0))
       /\ srcOpen' = ok
       /\ pc' = "open_dst"
       /\ ret' = ret
  /\ UNCHANGED <<srcData, srcPos, dstData, dstBefore, dstOpen, bytes, data,
                 pos, bytes_read, bytes_written>>

OpenSource ==
  /\ UNCHANGED notCopy
  /\ pc = "open_src"
  /\ \E ok \in BOOLEAN :
       /\ log' = Append(log, Call("src", "open", 0, 0, IF ok THEN 1 ELSE 0))
       /\ srcOpen' = ok
       /\ pc' = IF ok THEN "open_dst" ELSE "done"
       /\ ret' = IF ok THEN ret ELSE "false"
  /\ UNCHANGED <<srcData, srcPos, dstData, dstBefore, dstOpen, bytes, data,
                 pos, bytes_read, bytes_written>>

\* if (!destination->open(QIODevice::WriteOnly)) return false;
\* Opening a file WriteOnly truncates it.
OpenDestination ==
  /\ UNCHANGED notCopy
  /\ pc = "open_dst"
  /\ \E ok \in BOOLEAN :
       /\ log' = Append(log, Call("dst", "open", 0, 0, IF ok THEN 1 ELSE 0))
       /\ dstOpen' = ok
       /\ dstData' = IF ok THEN <<>> ELSE dstData
       /\ pc' = IF ok THEN "size" ELSE "done"
       /\ ret' = IF ok THEN ret ELSE "false"
  /\ UNCHANGED <<srcData, srcOpen, srcPos, dstBefore, bytes, data, pos,
                 bytes_read, bytes_written>>

\* const qint64 bytes = source->size();
\* boost::scoped_array<char> data(new char[bytes]);   (uninitialized)
\* qint64 pos = 0;
QuerySize ==
  /\ UNCHANGED notCopy
  /\ pc = "size"
  /\ bytes' = Len(srcData)
  /\ data' \in [1 .. Len(srcData) -> Byte]
  /\ pos' = 0
  /\ pc' = "read"
  /\ UNCHANGED <<srcData, srcOpen, srcPos, dstData, dstBefore, dstOpen,
                 bytes_read, bytes_written, ret, log>>

\* One iteration of the read loop.
ReadStep ==
  /\ UNCHANGED notCopy
  /\ pc = "read"
  /\ \E r \in IoReturns(bytes - pos) :
       /\ bytes_read' = r
       /\ log' = Append(log, Call("src", "read", pos, bytes - pos, r))
       /\ IF ReadFailed(r)
          THEN /\ ret' = "false"
               /\ pc' = "done"
               /\ UNCHANGED <<data, pos, srcPos>>
          ELSE /\ data' = StoreAt(data, pos, SubSeq(srcData, srcPos + 1, srcPos + r))
               /\ srcPos' = srcPos + r
               /\ pos' = pos + r
               /\ pc' = IF ReadLoopContinues(r, pos + r, bytes) THEN "read" ELSE "reset"
               /\ ret' = ret
  /\ UNCHANGED <<srcData, srcOpen, dstData, dstBefore, dstOpen, bytes,
                 bytes_written>>

\* pos = 0;   between the two loops
\* Mutant: the reset is missing.
ResetPosMissing ==
  /\ UNCHANGED notCopy
  /\ pc = "reset"
  /\ pc' = "write"
  /\ UNCHANGED <<srcData, srcOpen, srcPos, dstData, dstBefore, dstOpen, bytes,
                 data, pos, bytes_read, bytes_written, ret, log>>

ResetPos ==
  /\ UNCHANGED notCopy
  /\ pc = "reset"
  /\ pos' = 0
  /\ pc' = "write"
  /\ UNCHANGED <<srcData, srcOpen, srcPos, dstData, dstBefore, dstOpen, bytes,
                 data, bytes_read, bytes_written, ret, log>>

\* One iteration of the write loop; leaving it is "return true".
WriteStep ==
  /\ UNCHANGED notCopy
  /\ pc = "write"
  /\ \E w \in IoReturns(bytes - pos) :
       /\ bytes_written' = w
       /\ log' = Append(log, Call("dst", "write", pos, bytes - pos, w))
       /\ IF WriteFailed(w)
          THEN /\ ret' = "false"
               /\ pc' = "done"
               /\ UNCHANGED <<dstData, pos>>
          ELSE /\ dstData' = dstData \o SubSeq(data, pos + 1, pos + w)
               /\ pos' = pos + w
               /\ IF WriteLoopContinues(w, pos + w, bytes)
                  THEN pc' = "write" /\ ret' = ret
                  ELSE pc' = "done" /\ ret' = "true"
  /\ UNCHANGED <<srcData, srcOpen, srcPos, dstBefore, dstOpen, bytes, data,
                 bytes_read>>

NextCopy ==
  \/ OpenSource
  \/ OpenDestination
  \/ QuerySize
  \/ ReadStep
  \/ ResetPos
  \/ WriteStep

-----------------------------------------------------------------------------
(* Utilities::RemoveRecursive                                              *)

\* Most entries of a directory tree T; entry 1 is the root, the path
\* RemoveRecursive is called with.
MaxNodes == 4

\* The directory trees of n entries.  An entry's number stands for its name:
\* QDir::entryList sorts by name.  hidden: the name starts with a dot.
Trees(n) ==
  { t \in [n : {n},
           parent : [1 .. n -> 0 .. n],
           kind : [1 .. n -> {"dir", "file"}],
           hidden : [1 .. n -> BOOLEAN]] :
      /\ t.parent[1] = 0 /\ t.kind[1] = "dir" /\ ~t.hidden[1]
      /\ \A c \in 2 .. n :
           /\ t.parent[c] \in 1 .. (c - 1)
           /\ t.kind[t.parent[c]] = "dir" }

Children(t, d) == {c \in 2 .. t.n : t.parent[c] = d}

RECURSIVE SortedSeq(_)
SortedSeq(S) ==
  IF S = {} THEN <<>>
  ELSE LET m == CHOOSE x \in S : \A y \in S : x <= y
       IN  <<m>> \o SortedSeq(S \ {m})

\* QDir::NoDotAndDotDot | QDir::Dirs
DirFilter == {"NoDotAndDotDot", "Dirs"}

\* QDir::NoDotAndDotDot | QDir::Files
FileFilter == {"NoDotAndDotDot", "Files"}

\* QDir(path).entryList(filters): the existing children of dir of the kinds
\* the filter names, in name order.  "." and ".." are no entries of the
\* model.  A hidden entry is listed only under QDir::Hidden.
entryList(t, present, dir, filters) ==
  SortedSeq({c \in Children(t, dir) \cap present :
               /\ \/ t.kind[c] = "dir" /\ "Dirs" \in filters
                  \/ t.kind[c] = "file" /\ "Files" \in filters
               /\ t.hidden[c] => "Hidden" \in filters})

\* An activation of RemoveRecursive(path): at is the loop it is in, todo the
\* rest of the list foreach iterates over (a copy taken when the loop starts).
Frame(path, at, todo) == [path |-> path, at |-> at, todo |-> todo]

Top == stack[Len(stack)]
Below == SubSeq(stack, 1, Len(stack) - 1)

InitRemove ==
  /\ tree \in UNION {Trees(n) : n \in 1 .. MaxNodes}
  /\ exists = 1 .. tree.n
  /\ stack = <<Frame(1, "dirs", entryList(tree, 1 .. tree.n, 1, DirFilter))>>
  /\ ops = <<>>
  /\ denied = FALSE

IdleRemove ==
  /\ tree = [n |-> 0, parent |-> <<>>, kind |-> <<>>, hidden |-> <<>>]
  /\ exists = {}
  /\ stack = <<>>
  /\ ops = <<>>
  /\ denied = FALSE

\* foreach (child, dir.entryList(NoDotAndDotDot | Dirs))
\*   RemoveRecursive(path + "/" + child);
Recurse ==
  /\ UNCHANGED notRemove
  /\ stack # <<>>
  /\ Top.at = "dirs"
  /\ Top.todo # <<>>
  /\ LET child == Head(Top.todo)
     IN  stack' = Below \o <<Frame(Top.path, "dirs", Tail(Top.todo)),
                             Frame(child, "dirs",
                                   entryList(tree, exists, child, DirFilter))>>
  /\ UNCHANGED <<tree, exists, ops, denied>>

\* The first loop is over: dir.entryList(NoDotAndDotDot | Files).
ListFiles ==
  /\ UNCHANGED notRemove
  /\ stack # <<>>
  /\ Top.at = "dirs"
  /\ Top.todo = <<>>
  /\ stack' = Below \o <<Frame(Top.path, "files",
                               entryList(tree, exists, Top.path, FileFilter))>>
  /\ UNCHANGED <<tree, exists, ops, denied>>

\* QFile::remove(path + "/" + child); its result is ignored.
RemoveFile ==
  /\ UNCHANGED notRemove
  /\ stack # <<>>
  /\ Top.at = "files"
  /\ Top.todo # <<>>
  /\ LET child == Head(Top.todo)
     IN  \E permitted \in BOOLEAN :
           /\ exists' = IF permitted THEN exists \ {child} ELSE exists
           /\ denied' = (denied \/ ~permitted)
           /\ ops' = Append(ops, [op |-> "remove", node |-> child,
                                  empty |-> TRUE,
                                  full |-> ~denied /\ permitted])
  /\ stack' = Below \o <<Frame(Top.path, "files", Tail(Top.todo))>>
  /\ UNCHANGED tree

\* dir.rmdir(path); its result is ignored, and RemoveRecursive returns.
\* rmdir fails on a directory that is not empty.
Rmdir ==
  /\ UNCHANGED notRemove
  /\ stack # <<>>
  /\ Top.at = "files"
  /\ Top.todo = <<>>
  /\ LET isEmpty == Children(tree, Top.path) \cap exists = {}
     IN  \E permitted \in (IF isEmpty THEN BOOLEAN ELSE {TRUE}) :
           /\ exists' = IF isEmpty /\ permitted
                        THEN exists \ {Top.path} ELSE exists
           /\ denied' = (denied \/ ~permitted)
           /\ ops' = Append(ops, [op |-> "rmdir", node |-> Top.path,
                                  empty |-> isEmpty,
                                  full |-> ~denied /\ permitted])
  /\ stack' = Below
  /\ UNCHANGED tree

NextRemove ==
  \/ Recurse
  \/ ListFiles
  \/ RemoveFile
  \/ Rmdir

-----------------------------------------------------------------------------
(* Utilities::FileSystemCapacity, Utilities::FileSystemFreeSpace           *)
(* (the Q_OS_UNIX branch)                                                  *)

\* A quint64 is kept as its eight 8-bit limbs, least significant first:
\* the products of the claims do not fit the model checker's integers.
Limbs == 1 .. 8
Zero64 == [k \in Limbs |-> 0]

RECURSIVE Pow(_, _)
Pow(b, n) == IF n = 0 THEN 1 ELSE b * Pow(b, n - 1)

\* Largest mantissa m, and the shifts s, of the values m * 2^s that the
\* operating system reports in a field of struct statvfs.
MaxMantissa == 2
Shifts == {0, 31, 63}
FieldValues == [m : 0 .. MaxMantissa, s : Shifts]

\* The quint64 (m * 2^s) mod 2^64, for m below 2^16.
U64(m, s) ==
  LET q == s \div 8
      mm == m * Pow(2, s % 8)
  IN  [k \in Limbs |->
         IF k - 1 < q \/ k - 1 - q > 3 THEN 0
         ELSE (mm \div Pow(256, k - 1 - q)) % 256]

\* quint64(x) of an unsigned long field.
ToQuint64(f) == U64(f.m, f.s)

\* Column k (from 0) of the schoolbook product: the sum of a_i * b_(k-i).
RECURSIVE Column(_, _, _, _)
Column(a, b, k, i) ==
  IF i > k THEN 0
  ELSE a[i + 1] * b[k - i + 1] + Column(a, b, k, i + 1)

\* The limbs k .. 7 of a * b, given the carry into limb k.
RECURSIVE MulFrom(_, _, _, _)
MulFrom(a, b, k, carry) ==
  IF k > 7 THEN <<>>
  ELSE LET t == Column(a, b, k, 0) + carry
       IN  <<t % 256>> \o MulFrom(a, b, k + 1, t \div 256)

\* quint64 * quint64: the product modulo 2^64.
Mul64(a, b) == MulFrom(a, b, 0, 0)

\* if (statvfs(...) == 0)
\*   return quint64(fs_info.f_blocks) * quint64(fs_info.f_bsize);
\* return 0;
CapacityValue(ok, info) ==
  IF ok THEN Mul64(ToQuint64(info.f_blocks), ToQuint64(info.f_bsize))
  ELSE Zero64

\* if (statvfs(...) == 0)
\*   return quint64(fs_info.f_bavail) * quint64(fs_info.f_bsize);
\* return 0;
\* Mutant: the total block count where the available one belongs.
FreeSpaceValueOfBlocks(ok, info) ==
  IF ok THEN Mul64(ToQuint64(info.f_blocks), ToQuint64(info.f_bsize))
  ELSE Zero64

FreeSpaceValue(ok, info) ==
  IF ok THEN Mul64(ToQuint64(info.f_bavail), ToQuint64(info.f_bsize))
  ELSE Zero64

\* statvfs succeeds or fails; either way fs_info holds some values (those
\* of the file system, or what the stack held).  <<>>: not returned yet.
InitStat ==
  /\ statOk \in BOOLEAN
  /\ fs_info \in [f_blocks : FieldValues, f_bavail : FieldValues,
                  f_bsize : FieldValues]
  /\ capacityRet = <<>>
  /\ freeRet = <<>>

IdleStat ==
  /\ statOk = FALSE
  /\ fs_info = [f_blocks |-> [m |-> 0, s |-> 0],
                f_bavail |-> [m |-> 0, s |-> 0],
                f_bsize |-> [m |-> 0, s |-> 0]]
  /\ capacityRet = <<>>
  /\ freeRet = <<>>

FileSystemCapacity ==
  /\ UNCHANGED notStat
  /\ capacityRet = <<>>
  /\ capacityRet' = CapacityValue(statOk, fs_info)
  /\ UNCHANGED <<statOk, fs_info, freeRet>>

FileSystemFreeSpace ==
  /\ UNCHANGED notStat
  /\ freeRet = <<>>
  /\ freeRet' = FreeSpaceValue(statOk, fs_info)
  /\ UNCHANGED <<statOk, fs_info, capacityRet>>

NextStat ==
  \/ FileSystemCapacity
  \/ FileSystemFreeSpace

-----------------------------------------------------------------------------
(* _detail::ObjectHelper                                                   *)

\* Senders, helpers, and the most invocations of one closure the model
\* follows.
MaxSenders == 2
MaxHelpers == 2
MaxEmits == 2

Senders == 1 .. MaxSenders
Helpers == 1 .. MaxHelpers

NoHelper == [state |-> "none", sender |-> 0, pending |-> FALSE]

\* The helpers whose slots are connected to sender s: a connection lasts
\* until one of its two objects is destroyed.
Receivers(s) == {h \in Helpers : helper[h].state = "alive" /\ helper[h].sender = s}

InitClosure ==
  /\ senderAlive = [s \in Senders |-> TRUE]
  /\ helper = [h \in Helpers |-> NoHelper]
  /\ invocations = [h \in Helpers |-> 0]
  /\ invokedDead = FALSE

IdleClosure ==
  /\ senderAlive = <<>>
  /\ helper = <<>>
  /\ invocations = <<>>
  /\ invokedDead = FALSE

\* ObjectHelper::ObjectHelper(sender, signal, closure):
\*   connect(sender, signal, SLOT(Invoked()));
\*   connect(sender, SIGNAL(destroyed()), SLOT(deleteLater()));
NewHelper(h, s) ==
  /\ UNCHANGED notClosure
  /\ helper[h].state = "none"
  /\ senderAlive[s]
  /\ helper' = [helper EXCEPT ![h] = [state |-> "alive", sender |-> s,
                                      pending |-> FALSE]]
  /\ UNCHANGED <<senderAlive, invocations, invokedDead>>

\* The sender emits the signal: every connected helper runs
\* ObjectHelper::Invoked():  closure_->Invoke();  deleteLater();
\* deleteLater only posts the deletion to the event loop.
Emit(s) ==
  /\ UNCHANGED notClosure
  /\ senderAlive[s]
  /\ Receivers(s) # {}
  /\ \A h \in Receivers(s) : invocations[h] < MaxEmits
  /\ invocations' = [h \in Helpers |->
                       IF h \in Receivers(s) THEN invocations[h] + 1
                       ELSE invocations[h]]
  /\ helper' = [h \in Helpers |->
                  IF h \in Receivers(s) THEN [helper[h] EXCEPT !.pending = TRUE]
                  ELSE helper[h]]
  /\ invokedDead' = (invokedDead \/ \E h \in Receivers(s) : helper[h].state = "deleted")
  /\ UNCHANGED senderAlive

\* The sender is destroyed: destroyed() runs deleteLater() of every
\* connected helper, and the sender's connections are gone.
DestroySender(s) ==
  /\ UNCHANGED notClosure
  /\ senderAlive[s]
  /\ senderAlive' = [senderAlive EXCEPT ![s] = FALSE]
  /\ helper' = [h \in Helpers |->
                  IF h \in Receivers(s) THEN [helper[h] EXCEPT !.pending = TRUE]
                  ELSE helper[h]]
  /\ UNCHANGED <<invocations, invokedDead>>

\* The event loop delivers the deferred deletion: the helper (and its
\* closure_) is deleted, and with it its connections.
DeferredDelete(h) ==
  /\ UNCHANGED notClosure
  /\ helper[h].state = "alive"
  /\ helper[h].pending
  /\ helper' = [helper EXCEPT ![h] = [@ EXCEPT !.state = "deleted",
                                               !.pending = FALSE]]
  /\ UNCHANGED <<senderAlive, invocations, invokedDead>>

NextClosure ==
  \/ \E h \in Helpers, s \in Senders : NewHelper(h, s)
  \/ \E s \in Senders : Emit(s)
  \/ \E s \in Senders : DestroySender(s)
  \/ \E h \in Helpers : DeferredDelete(h)

-----------------------------------------------------------------------------
(* Specifications                                                          *)

\* The state when Copy is called; the other pieces idle.
CopyCalled == InitCopy /\ IdleRemove /\ IdleStat /\ IdleClosure
RemoveCalled == IdleCopy /\ InitRemove /\ IdleStat /\ IdleClosure
StatCalled == IdleCopy /\ IdleRemove /\ InitStat /\ IdleClosure
ClosureStarted == IdleCopy /\ IdleRemove /\ IdleStat /\ InitClosure

\* Copy is straight-line synchronous code: once called it keeps executing
\* (every call on a device is taken to return), hence the weak fairness.
SpecCopy == CopyCalled /\ [][NextCopy]_vars /\ WF_vars(NextCopy)

SpecRemove == RemoveCalled /\ [][NextRemove]_vars

SpecStat == StatCalled /\ [][NextStat]_vars

SpecClosure == ClosureStarted /\ [][NextClosure]_vars

-----------------------------------------------------------------------------
(* Properties of Utilities::Copy (under SpecCopy)                          *)

\* A call that reported failure: open returned false, read or write -1.
Failed(c) ==
  \/ c.op = "open" /\ c.ret = 0
  \/ c.op \in {"read", "write"} /\ c.ret = -1

Returned == pc = "done"

\* The bytes the calls of kind op before the i-th call of the log moved.
RECURSIVE Transferred(_, _)
Transferred(op, i) ==
  IF i <= 1 THEN 0
  ELSE Transferred(op, i - 1)
       + (IF log[i - 1].op = op /\ log[i - 1].ret > 0 THEN log[i - 1].ret ELSE 0)

\* C1: whenever Copy returns true, the destination holds exactly the bytes
\* of the source, however read and write split the transfer.
CopyTrueMeansExactDuplicate ==
  (Returned /\ ret = "true") => dstData = srcData

\* What does hold of the code: the copy is exact when the reads moved all
\* bytes of the source and the writes all bytes of the buffer.
CopyExactWhenAllTransferred ==
  (/\ Returned /\ ret = "true"
   /\ Transferred("read", Len(log) + 1) = bytes
   /\ Transferred("write", Len(log) + 1) = bytes) => dstData = srcData

\* C3: after Copy returns, with true or with false, neither the source nor
\* the destination is left open.
CopyClosesBothHandles ==
  Returned => (~srcOpen /\ ~dstOpen)

\* C4: if opening the source fails, Copy returns false at once: no call is
\* ever issued on the destination, which stays closed with its contents
\* unchanged.
SourceOpenFailureLeavesDestination ==
  (Len(log) >= 1 /\ log[1].dev = "src" /\ log[1].op = "open" /\ log[1].ret = 0)
    => /\ Returned
       /\ ret = "false"
       /\ \A i \in DOMAIN log : log[i].dev # "dst"
       /\ ~dstOpen
       /\ dstData = dstBefore

SourceOpenFailed ==
  /\ Returned
  /\ Len(log) = 1 /\ log[1].dev = "src" /\ log[1].op = "open" /\ log[1].ret = 0
  /\ ret = "false"
  /\ dstBefore # <<>>

\* C5: a failed open of either device, a read returning -1 and a write
\* returning -1 each make Copy return false, and the failed call is the
\* last call Copy issues.
CopyFailsOnFirstError ==
  \A i \in DOMAIN log :
    Failed(log[i]) => /\ i = Len(log)
                      /\ Returned
                      /\ ret = "false"

\* A non-empty source was read completely and the very first write failed.
FirstWriteFailed ==
  /\ Returned
  /\ srcData # <<>>
  /\ Len(log) >= 1
  /\ log[Len(log)] = Call("dst", "write", 0, Len(srcData), -1)
  /\ ret = "false"

\* Every iteration of the read loop and of the write loop leaves the loop
\* or moves pos forward.
LeavesLoopOrAdvances ==
  pc \in {"read", "write"} => (pc' # pc \/ pos' > pos)

CopyLoopsProgress == [][LeavesLoopOrAdvances]_vars

\* With an empty source and no failing call Copy returns true and leaves
\* the destination empty.
CopyOfNothing ==
  (Returned /\ srcData = <<>> /\ \A i \in DOMAIN log : ~Failed(log[i]))
    => (ret = "true" /\ dstData = <<>>)

\* C6: Copy always terminates: for every source length and every sequence
\* of read/write return values (-1, 0, or a count not above the request)
\* each loop iteration leaves its loop or strictly increases pos, so Copy
\* returns in the end; and a zero-length source is copied with result true
\* and a destination of 0 bytes.
CopyTerminates ==
  /\ CopyLoopsProgress
  /\ []CopyOfNothing
  /\ <>Returned

\* An empty source was copied over a destination that held something: one
\* read and one write, each of 0 bytes and each returning 0.
EmptySourceCopied ==
  /\ Returned
  /\ srcData = <<>>
  /\ dstBefore # <<>>
  /\ ret = "true"
  /\ Len(log) = 4
  /\ log[3] = Call("src", "read", 0, 0, 0)
  /\ log[4] = Call("dst", "write", 0, 0, 0)

\* C9: in both loops 0 <= pos <= bytes, with the buffer bytes long; every
\* read and write asks for exactly bytes - pos bytes at offset pos, which
\* lies inside the buffer; and pos starts from 0 again in the write loop:
\* the offset of a call is what the earlier calls of its loop transferred.
CopyStaysInsideBuffer ==
  /\ pc \in {"read", "reset", "write"}
       => (0 <= pos /\ pos <= bytes /\ Len(data) = bytes)
  /\ \A i \in DOMAIN log :
       log[i].op \in {"read", "write"}
         => /\ log[i].off >= 0
            /\ log[i].len = bytes - log[i].off
            /\ log[i].off + log[i].len <= Len(data)
            /\ log[i].off = Transferred(log[i].op, i)

\* The source was read in full, and the write loop is in its second
\* iteration after a partial write.
SecondWriteAfterPartialWrite ==
  /\ pc = "write"
  /\ bytes = 2
  /\ pos = 1
  /\ \E i \in DOMAIN log : log[i] = Call("dst", "write", 0, 2, 1)

-----------------------------------------------------------------------------
(* Properties of Utilities::RemoveRecursive (under SpecRemove)             *)

RemoveReturned == stack = <<>>

\* C2: with every deletion permitted, after RemoveRecursive returns no
\* entry of the tree exists any more, the root included.
RemoveRecursiveRemovesTree ==
  (RemoveReturned /\ ~denied) => exists = {}

\* C7: the removal of a directory is attempted only after the removal of
\* each of its subdirectories and files was attempted, and with full
\* permissions the directory is empty when it is removed.
ChildrenBeforeParent ==
  \A i \in DOMAIN ops :
    ops[i].op = "rmdir"
      => /\ \A c \in Children(tree, ops[i].node) :
              \E j \in 1 .. (i - 1) :
                /\ ops[j].node = c
                /\ ops[j].op = (IF tree.kind[c] = "dir" THEN "rmdir" ELSE "remove")
         /\ ops[i].full => ops[i].empty

\* What does hold of the code: both statements, for the trees that have no
\* hidden entry.
NoHiddenEntry == \A c \in 1 .. tree.n : ~tree.hidden[c]
RemovesTreeWithoutHidden == NoHiddenEntry => RemoveRecursiveRemovesTree
ChildrenBeforeParentWithoutHidden == NoHiddenEntry => ChildrenBeforeParent

-----------------------------------------------------------------------------
(* Properties of FileSystemCapacity / FileSystemFreeSpace (under SpecStat) *)

\* C8: both functions return 0 when statvfs fails; when it succeeds,
\* FileSystemCapacity returns f_blocks * f_bsize and FileSystemFreeSpace
\* f_bavail * f_bsize, as products modulo 2^64.
StatReturnsProductOrZero ==
  /\ capacityRet # <<>>
       => capacityRet = IF statOk
                        THEN U64(fs_info.f_blocks.m * fs_info.f_bsize.m,
                                 fs_info.f_blocks.s + fs_info.f_bsize.s)
                        ELSE Zero64
  /\ freeRet # <<>>
       => freeRet = IF statOk
                    THEN U64(fs_info.f_bavail.m * fs_info.f_bsize.m,
                             fs_info.f_bavail.s + fs_info.f_bsize.s)
                    ELSE Zero64

\* statvfs failed with fs_info holding values whose products are not 0,
\* and both functions have returned.
StatFailedBothReturned ==
  /\ ~statOk
  /\ capacityRet # <<>> /\ freeRet # <<>>
  /\ Mul64(ToQuint64(fs_info.f_blocks), ToQuint64(fs_info.f_bsize)) # Zero64
  /\ Mul64(ToQuint64(fs_info.f_bavail), ToQuint64(fs_info.f_bsize)) # Zero64
  /\ fs_info.f_blocks # fs_info.f_bavail

-----------------------------------------------------------------------------
(* Properties of _detail::ObjectHelper (under SpecClosure)                 *)

\* C10: a helper invokes its closure at most once over its lifetime, and
\* never after the helper has been deleted.
ClosureInvokedAtMostOnce ==
  /\ \A h \in Helpers : invocations[h] <= 1
  /\ ~invokedDead

====
